---------------------------- MODULE Spec2Model ----------------------------
(***************************************************************************)
(* A model of the my-ssh desktop application: the message loop of          *)
(* App::update (src/src/main.rs), the views it renders (menu bar, tab      *)
(* router) and the terminal tab ShellViewTab (src/src/shell.rs).           *)
(*                                                                         *)
(* Text is a sequence of characters.  A character is a one-element string  *)
(* or the name of a code point ("U+00E9"); Utf8Len gives the number of     *)
(* bytes of its UTF-8 encoding, which is what Rust's String counts.        *)
(***************************************************************************)
EXTENDS Integers, Sequences, FiniteSets, TLC

(***************************************************************************)
(* Bounds of the model.                                                    *)
(***************************************************************************)
\* Messages the application loop processes in one behaviour of Spec.
MaxEvents == 3
\* Messages the terminal tab processes in one behaviour of SpecShell.
MaxShellEvents == 4
\* Messages other than ShellMessages in one behaviour of SpecShell.
MaxOtherEvents == 1
\* Longest text typed into the pending-input field.
MaxTyped == 150
\* Number of abstract private states of each tab whose source is not given.
NumLocalStates == 2

(***************************************************************************)
(* Program constants.                                                      *)
(***************************************************************************)
\* data.truncate(100)
TruncateLen == 100
\* hor_divider_position: Some(200)
InitHorDivider == 200

(***************************************************************************)
(* Text.                                                                   *)
(***************************************************************************)
\* Bytes of the UTF-8 encoding of a character.
Utf8Len(c) ==
    CASE c = "U+00E9" -> 2
      [] c = "U+4E2D" -> 3
      [] c = "U+FFFD" -> 3
      [] OTHER -> 1

\* The text made of n copies of the character c.
Rep(c, n) == [i \in 1..n |-> c]

\* How many characters of s are encoded in w bytes.
CountWidth(s, w) == Cardinality({i \in DOMAIN s : Utf8Len(s[i]) = w})

\* String::len: the length of a text in bytes.
ByteLen(s) == CountWidth(s, 1) + 2 * CountWidth(s, 2) + 3 * CountWidth(s, 3)

\* The first k characters of s.
Take(s, k) == SubSeq(s, 1, IF k < Len(s) THEN k ELSE Len(s))

RECURSIVE Scan(_, _, _, _)
\* Walks s from character k (bytes consumed so far: b) and stops before the
\* first character that would end beyond byte offset n.
Scan(s, n, k, b) ==
    IF k = Len(s) \/ b + Utf8Len(s[k + 1]) > n
    THEN [chars |-> k, bytes |-> b]
    ELSE Scan(s, n, k + 1, b + Utf8Len(s[k + 1]))

\* str::is_char_boundary: byte offset n is the start of a character or the end.
IsCharBoundary(s, n) == Scan(s, n, 0, 0).bytes = n

\* The characters of s that lie wholly within its first n bytes.
BytePrefix(s, n) == Take(s, Scan(s, n, 0, 0).chars)

\* A faulty variant of Truncate: the text is kept whole.
Truncate_Whole(s, n) == [panic |-> FALSE, text |-> s]

\* String::truncate(new_len): no effect when new_len exceeds the byte length,
\* a panic when new_len is not on a character boundary, else the byte prefix.
Truncate(s, n) ==
    IF n <= ByteLen(s)
    THEN IF IsCharBoundary(s, n)
         THEN [panic |-> FALSE, text |-> BytePrefix(s, n)]
         ELSE [panic |-> TRUE, text |-> s]
    ELSE [panic |-> FALSE, text |-> s]

\* String::from_utf8_lossy: every invalid byte sequence ("BAD") becomes U+FFFD.
FromUtf8Lossy(bytes) ==
    [i \in 1..Len(bytes) |-> IF bytes[i] = "BAD" THEN "U+FFFD" ELSE bytes[i]]

(***************************************************************************)
(* Inputs.                                                                 *)
(***************************************************************************)
\* Characters the user types: one, two and three bytes long.
TypedChars == {"a", "U+00E9", "U+4E2D"}

TypedLens == {0, 1, TruncateLen, MaxTyped}

\* Texts delivered by the text field.
TypedTexts == {Rep(c, n) : c \in TypedChars, n \in TypedLens}

\* What a child process writes to its streams, as decoded units: characters,
\* and "BAD" for a byte sequence that is not valid UTF-8.
StdoutStreams == {<<>>, <<"o">>}

StderrStreams == {<<>>, <<"e", "BAD">>}

\* Command::new(input).output(): the operating system's answer.  An empty
\* program name is never found; any other name may or may not be spawnable.
SpawnFailure == [spawned |-> FALSE, success |-> FALSE, stdout |-> <<>>, stderr |-> <<>>]

SpawnOutcomes(input) ==
    {SpawnFailure} \cup
    (IF input = <<>> THEN {}
     ELSE [spawned : {TRUE}, success : BOOLEAN, stdout : StdoutStreams,
           stderr : StderrStreams])

\* data.truncate(100) of every text the field delivers (evaluated once per text).
Truncated == [d \in TypedTexts |-> Truncate(d, TruncateLen)]

(***************************************************************************)
(* The terminal tab: ShellViewTab.                                         *)
(***************************************************************************)
\* ShellViewTab::new
ShellNew == [output |-> <<>>, input |-> <<>>, submit_button_state |-> <<>>]

\* A faulty variant of CapturedText: the branches of the status test exchanged.
CapturedText_Swapped(out) ==
    IF out.success THEN FromUtf8Lossy(out.stderr) ELSE FromUtf8Lossy(out.stdout)

\* The stream recorded for a completed process.
CapturedText(out) ==
    IF out.success THEN FromUtf8Lossy(out.stdout) ELSE FromUtf8Lossy(out.stderr)

\* format!("$ {}\n", text)
Entry(t) == <<"$", " ">> \o t \o <<"\n">>

\* A faulty variant of PushStr: the entry assigned instead of appended.
PushStr_Replace(output, entry) == entry

\* self.output.push_str(entry)
PushStr(output, entry) == output \o entry

\* ShellViewTab::update.  The result is the tab after the message, or a panic
\* that unwinds out of the application's update.
ShellUpdate(tab, kind, arg) ==
    CASE kind = "SubmitInput" ->
           IF ~arg.spawned
           THEN [panic |-> TRUE, tab |-> tab]
           ELSE [panic |-> FALSE,
                 tab |-> [tab EXCEPT !.output = PushStr(tab.output, Entry(CapturedText(arg))),
                                     !.input = <<>>]]
      [] kind = "InputChanged" ->
           [panic |-> FALSE, tab |-> [tab EXCEPT !.input = arg]]
      [] kind = "DataChanged" ->
           LET t == Truncated[arg]
           IN  IF t.panic
               THEN [panic |-> TRUE, tab |-> tab]
               ELSE [panic |-> FALSE, tab |-> [tab EXCEPT !.input = t.text]]


(***************************************************************************)
(* The application: struct App and the messages of App::update.            *)
(***************************************************************************)
VARIABLES
    title, value, check, toggle, theme, flip_h, flip_v, dark_mode, text,
    size_option, ver_divider_position, hor_divider_position,
    active_tab, login_tab, ferris_tab, counter_tab, settings_tab, shell_tab,
    alive,     \* FALSE once a panic has unwound out of update: the process is gone
    last,      \* the message update processed last
    events,    \* how many messages update has processed
    shell_events   \* how many of them were ShellMessages

vars == <<title, value, check, toggle, theme, flip_h, flip_v, dark_mode, text,
          size_option, ver_divider_position, hor_divider_position,
          active_tab, login_tab, ferris_tab, counter_tab, settings_tab, shell_tab,
          alive, last, events, shell_events>>

menuVars == <<value, check, toggle, theme, flip_h, flip_v, dark_mode, text>>
layoutVars == <<size_option, ver_divider_position, hor_divider_position>>
tabVars == <<login_tab, ferris_tab, counter_tab, settings_tab, shell_tab>>

\* Option<u16>
None == <<>>
Some(x) == <<x>>

\* enum TabId
TabId == {"Login", "Ferris", "Counter", "Settings", "Shell"}

\* enum SizeOption, SizeOption::ALL
SizeOptionAll == {"Uniform", "Static"}

\* Private states of LoginTab, FerrisTab, CounterTab and SettingsTab.
LocalStates == 0..(NumLocalStates - 1)

\* Labels of the debug buttons pressed.
DebugLabels == {"Item", "Button"}

\* Slider positions (u8).
SliderValues == {0, 255}

\* The colours of two color_item entries, in hundredths per channel.
ColorItems == {<<45, 25, 57>>, <<15, 59, 64>>}

\* Texts typed into the menu's text field.
MenuTexts == {"", "a"}

\* Offsets reported by a dragged divider (u16).
DragOffsets == {40, 300}

\* {:.2} of a channel given in hundredths.
Fmt2(h) ==
    IF h >= 100 THEN "1.00"
    ELSE "0." \o (IF h < 10 THEN "0" ELSE "") \o ToString(h)

\* format!("[{:.2}, {:.2}, {:.2}]", c.r, c.g, c.b)
ColorTitle(c) == "[" \o Fmt2(c[1]) \o ", " \o Fmt2(c[2]) \o ", " \o Fmt2(c[3]) \o "]"

\* bool::to_string
BoolString(b) == IF b THEN "true" ELSE "false"

Msg(kind, arg) == [kind |-> kind, arg |-> arg]

\* enum ShellMessage
ShellKinds == {"SubmitInput", "InputChanged", "DataChanged"}

\* App::new
Init ==
    /\ title = "Menu Test"
    /\ value = 0
    /\ check = FALSE
    /\ toggle = FALSE
    /\ theme = [primary |-> <<45, 25, 57>>, base |-> "Light"]
    /\ flip_h = FALSE
    /\ flip_v = FALSE
    /\ dark_mode = FALSE
    /\ text = "Text Input"
    /\ size_option = "Static"
    /\ ver_divider_position = None
    /\ hor_divider_position = Some(InitHorDivider)
    /\ active_tab = "Login"
    /\ login_tab = 0
    /\ ferris_tab = 0
    /\ counter_tab = 0
    /\ settings_tab = 0
    /\ shell_tab = ShellNew
    /\ alive = TRUE
    /\ last = Msg("None", "None")
    /\ events = 0
    /\ shell_events = 0

\* What every message does besides its own arm of the match.
Processed(kind, arg) ==
    /\ last' = Msg(kind, arg)
    /\ events' = events + 1
    /\ shell_events' = IF kind \in ShellKinds THEN shell_events + 1 ELSE shell_events

\* Message::Debug(s)
Debug(s) ==
    /\ title' = s
    /\ Processed("Debug", s)
    /\ UNCHANGED <<menuVars, layoutVars, active_tab, tabVars, alive>>

\* Message::ValueChange(v)
ValueChange(v) ==
    /\ value' = v
    /\ title' = ToString(v)
    /\ Processed("ValueChange", v)
    /\ UNCHANGED <<check, toggle, theme, flip_h, flip_v, dark_mode, text,
                   layoutVars, active_tab, tabVars, alive>>

\* Message::CheckChange(c)
CheckChange(c) ==
    /\ check' = c
    /\ title' = BoolString(c)
    /\ Processed("CheckChange", c)
    /\ UNCHANGED <<value, toggle, theme, flip_h, flip_v, dark_mode, text,
                   layoutVars, active_tab, tabVars, alive>>

\* Message::ToggleChange(t)
ToggleChange(t) ==
    /\ toggle' = t
    /\ title' = BoolString(t)
    /\ Processed("ToggleChange", t)
    /\ UNCHANGED <<value, check, theme, flip_h, flip_v, dark_mode, text,
                   layoutVars, active_tab, tabVars, alive>>

\* Message::ColorChange(c)
ColorChange(c) ==
    /\ theme' = [theme EXCEPT !.primary = c]
    /\ title' = ColorTitle(c)
    /\ Processed("ColorChange", c)
    /\ UNCHANGED <<value, check, toggle, flip_h, flip_v, dark_mode, text,
                   layoutVars, active_tab, tabVars, alive>>

\* Message::FlipHorizontal
FlipHorizontal ==
    /\ flip_h' = ~flip_h
    /\ Processed("FlipHorizontal", "None")
    /\ UNCHANGED <<title, value, check, toggle, theme, flip_v, dark_mode, text,
                   layoutVars, active_tab, tabVars, alive>>

\* Message::FlipVertical
FlipVertical ==
    /\ flip_v' = ~flip_v
    /\ Processed("FlipVertical", "None")
    /\ UNCHANGED <<title, value, check, toggle, theme, flip_h, dark_mode, text,
                   layoutVars, active_tab, tabVars, alive>>

\* Message::ThemeChange(b)
ThemeChange(b) ==
    /\ dark_mode' = b
    /\ theme' = [primary |-> theme.primary, base |-> IF b THEN "Dark" ELSE "Light"]
    /\ Processed("ThemeChange", b)
    /\ UNCHANGED <<title, value, check, toggle, flip_h, flip_v, text,
                   layoutVars, active_tab, tabVars, alive>>

\* Message::TextChange(s)
TextChange(s) ==
    /\ text' = s
    /\ title' = s
    /\ Processed("TextChange", s)
    /\ UNCHANGED <<value, check, toggle, theme, flip_h, flip_v, dark_mode,
                   layoutVars, active_tab, tabVars, alive>>

\* A faulty variant of SizeOptionMsg: the toggle also moves the active tab.
SizeOptionMsg_ClosesTabs(so) ==
    /\ size_option' = so
    /\ title' = so
    /\ active_tab' = "Shell"
    /\ Processed("SizeOption", so)
    /\ UNCHANGED <<menuVars, ver_divider_position, hor_divider_position,
                   tabVars, alive>>

\* Message::SizeOption(so)
SizeOptionMsg(so) ==
    /\ size_option' = so
    /\ title' = so
    /\ Processed("SizeOption", so)
    /\ UNCHANGED <<menuVars, ver_divider_position, hor_divider_position,
                   active_tab, tabVars, alive>>

\* A faulty variant of OnVerResize: the drag is stored for both dividers.
OnVerResize_Coupled(position) ==
    /\ ver_divider_position' = Some(position)
    /\ hor_divider_position' = Some(position)
    /\ Processed("OnVerResize", position)
    /\ UNCHANGED <<title, menuVars, size_option, active_tab, tabVars, alive>>

\* Message::OnVerResize(position)
OnVerResize(position) ==
    /\ ver_divider_position' = Some(position)
    /\ Processed("OnVerResize", position)
    /\ UNCHANGED <<title, menuVars, size_option, hor_divider_position,
                   active_tab, tabVars, alive>>

\* Message::OnHorResize(position)
OnHorResize(position) ==
    /\ hor_divider_position' = Some(position)
    /\ Processed("OnHorResize", position)
    /\ UNCHANGED <<title, menuVars, size_option, ver_divider_position,
                   active_tab, tabVars, alive>>

\* A faulty variant of TabSelected: the terminal tab is built anew.
TabSelected_Resets(selected) ==
    /\ active_tab' = selected
    /\ shell_tab' = ShellNew
    /\ Processed("TabSelected", selected)
    /\ UNCHANGED <<title, menuVars, layoutVars, login_tab, ferris_tab,
                   counter_tab, settings_tab, alive>>

\* Message::TabSelected(selected)
TabSelected(selected) ==
    /\ active_tab' = selected
    /\ Processed("TabSelected", selected)
    /\ UNCHANGED <<title, menuVars, layoutVars, tabVars, alive>>

\* LoginTab::update, FerrisTab::update, CounterTab::update, SettingsTab::update:
\* each takes its own tab by exclusive reference and may leave it in any state
\* (s is the state the message leaves the tab in).
LocalUpdate(state, s) == s

\* A faulty variant of LoginMsg: the message also makes its tab the active one.
LoginMsg_Activates(s) ==
    /\ login_tab' = LocalUpdate(login_tab, s)
    /\ active_tab' = "Login"
    /\ Processed("Login", s)
    /\ UNCHANGED <<title, menuVars, layoutVars, ferris_tab, counter_tab,
                   settings_tab, shell_tab, alive>>

\* Message::Login(message)
LoginMsg(s) ==
    /\ login_tab' = LocalUpdate(login_tab, s)
    /\ Processed("Login", s)
    /\ UNCHANGED <<title, menuVars, layoutVars, active_tab, ferris_tab, counter_tab,
                   settings_tab, shell_tab, alive>>

\* Message::Ferris(message)
FerrisMsg(s) ==
    /\ ferris_tab' = LocalUpdate(ferris_tab, s)
    /\ Processed("Ferris", s)
    /\ UNCHANGED <<title, menuVars, layoutVars, active_tab, login_tab, counter_tab,
                   settings_tab, shell_tab, alive>>

\* Message::Counter(message)
CounterMsg(s) ==
    /\ counter_tab' = LocalUpdate(counter_tab, s)
    /\ Processed("Counter", s)
    /\ UNCHANGED <<title, menuVars, layoutVars, active_tab, login_tab, ferris_tab,
                   settings_tab, shell_tab, alive>>

\* Message::Settings(message)
SettingsMsg(s) ==
    /\ settings_tab' = LocalUpdate(settings_tab, s)
    /\ Processed("Settings", s)
    /\ UNCHANGED <<title, menuVars, layoutVars, active_tab, login_tab, ferris_tab,
                   counter_tab, alive>>
    /\ UNCHANGED shell_tab

\* Message::Shell(message): self.shell_tab.update(message).  A panic in the tab
\* unwinds through update and ends the process; nothing is written before it.
ShellMsg(kind, arg) ==
    LET r == ShellUpdate(shell_tab, kind, arg)
    IN  /\ shell_tab' = r.tab
        /\ alive' = ~r.panic
        /\ Processed(kind, arg)
        /\ UNCHANGED <<title, menuVars, layoutVars, active_tab, login_tab,
                       ferris_tab, counter_tab, settings_tab>>

\* Message::Shell(ShellMessage::SubmitInput), with the outcome of the spawn.
SubmitInput == \E out \in SpawnOutcomes(shell_tab.input) : ShellMsg("SubmitInput", out)

\* Message::Shell(ShellMessage::InputChanged(value))
InputChanged == \E v \in TypedTexts : ShellMsg("InputChanged", v)

\* Message::Shell(ShellMessage::DataChanged(data))
DataChanged == \E d \in TypedTexts : ShellMsg("DataChanged", d)

(***************************************************************************)
(* The views: App::view.                                                   *)
(***************************************************************************)
\* menu_tree(item, children); menu_tree!(item) has no children.
Node(label, children) == [label |-> label, children |-> children]

Leaf(label) == Node(label, <<>>)

\* fn menu_1
menu_1 == Node("Nested Menus", <<Leaf("Item"), Leaf("Item")>>)

\* fn menu_2
menu_2 ==
    LET sub_1 == Node("Or as a sub menu item",
                      <<Leaf("Item"), Leaf("Item"), Leaf("Item"), Leaf("Item")>>)
    IN  Node("Widgets",
             <<Leaf("You can use any widget"), Leaf("as a menu item"),
               Leaf("Button"), Leaf("Checkbox"), Leaf("Slider"), Leaf("text_input"),
               sub_1, Leaf("separator"), Leaf("Seperators are also widgets"),
               Leaf("Separator"), Leaf("Item"), Leaf("Item"), Leaf("dot_separator"),
               Leaf("Item"), Leaf("Item")>>)

\* fn menu_3
menu_3 ==
    LET primary == Node("Primary", <<Leaf("slider"), Leaf("slider"), Leaf("slider")>>)
    IN  Node("Controls",
             <<Leaf("Flip Horizontal"), Leaf("Flip Vertical"), Leaf("separator"),
               Leaf("Dark Mode"), Leaf("color_item"), Leaf("color_item"),
               Leaf("color_item"), Leaf("color_item"), primary>>)

\* fn menu_4
menu_4 ==
    Node("Scroll", <<Leaf("ajrs"), Leaf("bsdfho"), Leaf("clkjhbf"), Leaf("dekjdaud")>>)

\* fn menu_5
menu_5 == Node("Static", <<Leaf("Primary"), Leaf("sliders")>>)

\* let mb = match self.size_option { ... }: the menu bar of a sizing policy.
MenuBarOf(so) ==
    IF so = "Uniform"
    THEN [roots |-> <<menu_1, menu_2, menu_3, menu_4>>,
          item_width |-> <<"Uniform", 180>>, item_height |-> <<"Uniform", 25>>]
    ELSE [roots |-> <<menu_1, menu_2, menu_3, menu_4, menu_5>>,
          item_width |-> <<"Static", 180>>, item_height |-> <<"Static", 25>>]

\* The menu bar App::view renders in the current state.
MenuBar == MenuBarOf(size_option)

\* Tab::view of each tab: a function of the tab's own state.
TabView(owner, state) == [owner |-> owner, shows |-> state]

\* A faulty variant of ContentTabs: the settings tab is not registered.
ContentTabs_NoSettings ==
    << [id |-> "Shell", content |-> TabView("shell_tab", shell_tab)],
       [id |-> "Login", content |-> TabView("login_tab", login_tab)],
       [id |-> "Ferris", content |-> TabView("ferris_tab", ferris_tab)],
       [id |-> "Counter", content |-> TabView("counter_tab", counter_tab)] >>

\* A faulty variant of ContentTabs: two identifiers registered with each
\* other's content.
ContentTabs_Swapped ==
    << [id |-> "Shell", content |-> TabView("shell_tab", shell_tab)],
       [id |-> "Login", content |-> TabView("login_tab", login_tab)],
       [id |-> "Ferris", content |-> TabView("counter_tab", counter_tab)],
       [id |-> "Counter", content |-> TabView("ferris_tab", ferris_tab)],
       [id |-> "Settings", content |-> TabView("settings_tab", settings_tab)] >>

\* Tabs::new(Message::TabSelected).push(..)...: the tabs registered, in order.
ContentTabs ==
    << [id |-> "Shell", content |-> TabView("shell_tab", shell_tab)],
       [id |-> "Login", content |-> TabView("login_tab", login_tab)],
       [id |-> "Ferris", content |-> TabView("ferris_tab", ferris_tab)],
       [id |-> "Counter", content |-> TabView("counter_tab", counter_tab)],
       [id |-> "Settings", content |-> TabView("settings_tab", settings_tab)] >>

\* .set_active_tab(&self.active_tab): the registered tabs the identifier names.
ActiveEntries == {i \in DOMAIN ContentTabs : ContentTabs[i].id = active_tab}

\* The content drawn for the active tab: that of the first entry it names.
RenderActive ==
    IF ActiveEntries = {} THEN [id |-> "None", content |-> TabView("None", "None")]
    ELSE ContentTabs[CHOOSE i \in ActiveEntries : \A j \in ActiveEntries : i <= j]

\* Split::new(left, right, self.hor_divider_position, ..., Message::OnHorResize)
Panel == [divider_position |-> hor_divider_position, on_resize |-> "OnHorResize"]

\* The arms of App::update other than Message::Shell.
OtherMessage ==
    \/ \E s \in DebugLabels : Debug(s)
    \/ \E v \in SliderValues : ValueChange(v)
    \/ \E c \in BOOLEAN : CheckChange(c)
    \/ \E t \in BOOLEAN : ToggleChange(t)
    \/ \E c \in ColorItems : ColorChange(c)
    \/ FlipHorizontal
    \/ FlipVertical
    \/ \E b \in BOOLEAN : ThemeChange(b)
    \/ \E s \in MenuTexts : TextChange(s)
    \/ \E so \in SizeOptionAll : SizeOptionMsg(so)
    \/ \E p \in DragOffsets : OnVerResize(p)
    \/ \E p \in DragOffsets : OnHorResize(p)
    \/ \E t \in TabId : TabSelected(t)
    \/ \E s \in LocalStates : LoginMsg(s)
    \/ \E s \in LocalStates : FerrisMsg(s)
    \/ \E s \in LocalStates : CounterMsg(s)
    \/ \E s \in LocalStates : SettingsMsg(s)

\* The arm Message::Shell of App::update.
ShellMessage ==
    \/ SubmitInput
    \/ InputChanged
    \/ DataChanged

\* App::update, one message at a time, while the process lives.
Next ==
    /\ alive
    /\ events < MaxEvents
    /\ (OtherMessage \/ ShellMessage)

Spec == Init /\ [][Next]_vars

\* A session at the terminal tab: ShellMessages, among which a few other
\* messages arrive.
NextShell ==
    /\ alive
    /\ \/ shell_events < MaxShellEvents /\ ShellMessage
       \/ events - shell_events < MaxOtherEvents /\ OtherMessage

SpecShell == Init /\ [][NextShell]_vars

(***************************************************************************)
(* Properties of the terminal tab.                                         *)
(***************************************************************************)
\* The step just taken processed a message of this kind.
Handled(kind) == last'.kind = kind /\ events' = events + 1

\* The text "$ " t "\n".
PrefixedLine(t) == <<"$", " ">> \o t \o <<"\n">>

\* p is a prefix of t.
IsPrefix(p, t) == Len(p) <= Len(t) /\ SubSeq(t, 1, Len(p)) = p

\* C1: a submission whose process cannot be spawned leaves the application
\* alive and adds a diagnostic to the transcript.
C1_SpawnFailureRecoverable ==
    [][(Handled("SubmitInput") /\ ~last'.arg.spawned)
         => /\ alive'
            /\ Len(shell_tab'.output) > Len(shell_tab.output)]_vars

\* C2: after DataChanged(text) the pending input is the first 100 characters
\* of text (text itself when it has at most 100), whatever its characters,
\* and the application is alive.
C2_DataChangedKeepsFirstHundredChars ==
    last.kind = "DataChanged"
        => /\ alive
           /\ shell_tab.input = Take(last.arg, TruncateLen)

\* C3: a completed submission appends exactly one entry, "$ ", the captured
\* text and a line break, to the transcript, which stays a prefix of the new
\* one; every other message leaves the transcript as it is.
C3_TranscriptAppendOnly ==
    [][IF Handled("SubmitInput") /\ last'.arg.spawned
       THEN /\ IsPrefix(shell_tab.output, shell_tab'.output)
            /\ \E t \in {FromUtf8Lossy(last'.arg.stdout), FromUtf8Lossy(last'.arg.stderr)} :
                  shell_tab'.output = shell_tab.output \o PrefixedLine(t)
            /\ (last'.arg.success /\ last'.arg.stdout = <<>>
                  => shell_tab'.output = shell_tab.output \o <<"$", " ", "\n">>)
       ELSE shell_tab'.output = shell_tab.output]_vars

\* C3 witness: a second submission, successful and silent, has added one
\* prefixed line to a transcript that held an entry already.
C3_Witness ==
    /\ last.kind = "SubmitInput"
    /\ last.arg.spawned /\ last.arg.success /\ last.arg.stdout = <<>>
    /\ shell_tab.output = <<"$", " ", "o", "\n", "$", " ", "\n">>

\* C4: a completed submission records standard output when the process
\* succeeded and standard error when it did not, behind the same marker.
C4_CapturedStreamFollowsStatus ==
    [][(Handled("SubmitInput") /\ last'.arg.spawned)
         => LET out == last'.arg
                recorded == IF out.success THEN out.stdout ELSE out.stderr
            IN  shell_tab'.output =
                    shell_tab.output \o PrefixedLine(FromUtf8Lossy(recorded))]_vars

\* C4 witness: a process that failed after writing to both streams; the
\* transcript holds its standard error.
C4_Witness ==
    /\ last.kind = "SubmitInput"
    /\ last.arg.spawned /\ ~last.arg.success
    /\ last.arg.stdout = <<"o">> /\ last.arg.stderr = <<"e", "BAD">>
    /\ shell_tab.output = <<"$", " ", "e", "U+FFFD", "\n">>

(***************************************************************************)
(* Properties of the tab router, the dividers and the menu bar.            *)
(***************************************************************************)
\* The private state of a tab.
TabState(t) ==
    CASE t = "Login" -> login_tab
      [] t = "Ferris" -> ferris_tab
      [] t = "Counter" -> counter_tab
      [] t = "Settings" -> settings_tab
      [] t = "Shell" -> shell_tab

\* The field of App that holds a tab.
TabField(t) ==
    CASE t = "Login" -> "login_tab"
      [] t = "Ferris" -> "ferris_tab"
      [] t = "Counter" -> "counter_tab"
      [] t = "Settings" -> "settings_tab"
      [] t = "Shell" -> "shell_tab"

\* The tab a tab-local message is addressed to.
Addressee(kind) == IF kind \in ShellKinds THEN "Shell" ELSE kind

LocalKinds == {"Login", "Ferris", "Counter", "Settings"} \cup ShellKinds

\* C5: the active identifier names exactly one of the tabs the view
\* registers, and these are Shell, Login, Ferris, Counter and Settings.
C5_ActiveTabIsRegistered ==
    /\ Cardinality(ActiveEntries) = 1
    /\ active_tab \in {"Shell", "Login", "Ferris", "Counter", "Settings"}
    /\ {ContentTabs[i].id : i \in DOMAIN ContentTabs}
          = {"Shell", "Login", "Ferris", "Counter", "Settings"}

\* C5 witness: the last registered tab has been selected.
C5_Witness ==
    /\ last.kind = "TabSelected"
    /\ active_tab = "Settings"
    /\ ActiveEntries = {5}

\* C6: a tab-local message for a tab that is not active reaches that tab
\* (a typed text becomes the terminal tab's pending input) and changes
\* neither the active tab nor the private state of any other tab.
C6_LocalMessageToInactiveTab ==
    [][\A k \in LocalKinds :
          (Handled(k) /\ active_tab # Addressee(k))
            => /\ active_tab' = active_tab
               /\ \A u \in TabId \ {Addressee(k)} : TabState(u)' = TabState(u)
               /\ (k = "InputChanged" => shell_tab'.input = last'.arg)]_vars

\* C6 witness: a message changed the login tab while the terminal tab,
\* holding typed text, was the active one.
C6_Witness ==
    /\ last.kind = "Login"
    /\ active_tab = "Shell"
    /\ login_tab = 1
    /\ shell_tab.input # <<>>

\* C7: a tab selection changes the active tab and nothing else: every tab
\* keeps its private state.
C7_TabSelectionKeepsTabState ==
    [][Handled("TabSelected")
         => /\ active_tab' = last'.arg
            /\ \A u \in TabId : TabState(u)' = TabState(u)
            /\ UNCHANGED <<title, menuVars, layoutVars, alive>>]_vars

\* C7 witness: the user has left the terminal tab, which keeps its
\* transcript.
C7_Witness ==
    /\ last.kind = "TabSelected"
    /\ active_tab = "Ferris"
    /\ shell_tab.output = <<"$", " ", "o", "\n">>

\* C8: after select(tab_id) the view draws the tab tab_id, with that tab's
\* state; selecting the active tab changes no field of the application.
C8_SelectThenRender ==
    [][\A t \in TabId :
          (Handled("TabSelected") /\ last'.arg = t)
            => /\ RenderActive'.id = t
               /\ RenderActive'.content.owner = TabField(t)
               /\ RenderActive'.content.shows = TabState(t)'
               /\ (t = active_tab
                     => UNCHANGED <<title, menuVars, layoutVars, active_tab,
                                    tabVars, alive>>)]_vars

\* C8 witness: the counter tab, changed while hidden, is selected and drawn.
C8_Witness ==
    /\ last.kind = "TabSelected"
    /\ last.arg = "Counter"
    /\ counter_tab = 1
    /\ RenderActive = [id |-> "Counter", content |-> [owner |-> "counter_tab", shows |-> 1]]

\* C9: a drag stores exactly the dragged offset for its own divider and
\* leaves the other divider's offset alone; no other message changes either.
C9_DividersUncoupled ==
    [][/\ Handled("OnHorResize")
            => /\ hor_divider_position' = Some(last'.arg)
               /\ ver_divider_position' = ver_divider_position
       /\ Handled("OnVerResize")
            => /\ ver_divider_position' = Some(last'.arg)
               /\ hor_divider_position' = hor_divider_position
       /\ last'.kind \notin {"OnHorResize", "OnVerResize"}
            => UNCHANGED <<hor_divider_position, ver_divider_position>>]_vars

\* C9 witness: on_drag(horizontal, 300) then on_drag(vertical, 40).
C9_Witness ==
    /\ last.kind = "OnVerResize"
    /\ ver_divider_position = Some(40)
    /\ hor_divider_position = Some(300)

\* C10 as stated: a toggle of the sizing policy leaves the menu tree (the
\* top-level entries and their children) and the active tab as they were.
C10_ToggleKeepsMenuTree ==
    [][Handled("SizeOption")
         => /\ MenuBar'.roots = MenuBar.roots
            /\ active_tab' = active_tab]_vars

\* C10 as amended: a toggle of the sizing policy writes size_option and
\* title only (so never the active tab nor any tab); the first four top-level
\* entries and their children are those of both policies, and Static alone
\* has a fifth entry, "Static".
C10_ToggleKeepsSharedMenus ==
    [][Handled("SizeOption")
         => /\ size_option' = last'.arg
            /\ UNCHANGED <<menuVars, ver_divider_position, hor_divider_position,
                           active_tab, tabVars, alive>>
            /\ Take(MenuBar'.roots, 4) = Take(MenuBar.roots, 4)
            /\ \A i \in 1..4 : MenuBar'.roots[i] = MenuBarOf("Uniform").roots[i]
            /\ Len(MenuBar'.roots) = (IF size_option' = "Static" THEN 5 ELSE 4)
            /\ (size_option' = "Static" => MenuBar'.roots[5].label = "Static")
            /\ MenuBar'.item_width[1] = size_option'
            /\ MenuBar'.item_height[1] = size_option']_vars

\* C10 witness: the policy has been toggled to Uniform while another tab
\* than the initial one was active.
C10_Witness ==
    /\ last.kind = "SizeOption"
    /\ size_option = "Uniform"
    /\ Len(MenuBar.roots) = 4
    /\ active_tab = "Shell"

(***************************************************************************)
(* The cap on the pending input.                                           *)
(***************************************************************************)
\* C13 as stated: whatever ShellMessages have arrived, the pending input has
\* at most 100 characters, and it is empty right after a completed submission.
C13_InputNeverExceedsCap ==
    /\ Len(shell_tab.input) <= TruncateLen
    /\ (last.kind = "SubmitInput" /\ last.arg.spawned => shell_tab.input = <<>>)

\* C13 as amended: the pending input starts within 100 characters; a
\* DataChanged that is stored leaves it within 100 characters; only an
\* InputChanged, which stores its text whole, can take it beyond them; and it
\* is empty right after a completed submission.
C13_CapHoldsExceptInputChanged ==
    /\ Len(shell_tab.input) <= TruncateLen
    /\ [][/\ (Handled("SubmitInput") /\ last'.arg.spawned) => shell_tab'.input = <<>>
          /\ (Handled("DataChanged") /\ alive') => Len(shell_tab'.input) <= TruncateLen
          /\ Handled("InputChanged") => shell_tab'.input = last'.arg
          /\ Len(shell_tab'.input) > TruncateLen
                => \/ Handled("InputChanged")
                   \/ shell_tab'.input = shell_tab.input]_vars

\* C13 witness: a text longer than the cap arrived by DataChanged and its
\* first 100 characters are the pending input.
C13_Witness ==
    /\ last.kind = "DataChanged"
    /\ alive
    /\ Len(last.arg) > TruncateLen
    /\ Len(shell_tab.input) = TruncateLen
    /\ shell_tab.input = Take(last.arg, TruncateLen)

=============================================================================
